---- MODULE Spec2Model ----
(***************************************************************************)
(* Model of src/main.rs: a GeoJSON FeatureCollection is read, the area of  *)
(* every feature is accumulated per city name (attribute N03_004) into a   *)
(* Mutex<HashMap<String, f64>> by rayon workers, the map is drained into a *)
(* vector, sorted by area descending and written as CSV.                   *)
(*                                                                         *)
(* f64 values are modelled as a scaled-down binary floating-point format:  *)
(* a finite non-negative value is a natural number with at most MantBits   *)
(* significant bits (round to nearest, ties to even), plus NaN.  The       *)
(* exponent range is not bounded (no overflow to infinity within the       *)
(* areas of the model).                                                    *)
(***************************************************************************)
EXTENDS Integers, Sequences, FiniteSets, TLC

\* ---------------------------------------------------------------- bounds
MaxFeatures == 3
NumWorkers == 2
MantBits == 2

\* ------------------------------------------------------------ f64 values
NaN == -1

RECURSIVE Pow2(_)
Pow2(n) == IF n = 0 THEN 1 ELSE 2 * Pow2(n - 1)

\* Number of low bits that do not fit in the mantissa.
RECURSIVE ExcessBits(_)
ExcessBits(n) == IF n < Pow2(MantBits) THEN 0 ELSE 1 + ExcessBits(n \div 2)

\* Round a natural number to the nearest representable value, ties to even.
RoundF64(n) ==
    LET e == ExcessBits(n)
        q == n \div Pow2(e)
        r == n % Pow2(e)
        up == e > 0 /\ (2 * r > Pow2(e) \/ (2 * r = Pow2(e) /\ q % 2 = 1))
    IN  (IF up THEN q + 1 ELSE q) * Pow2(e)

\* f64 addition of non-negative values: `+=` of line 47.
AddF64(a, b) == IF a = NaN \/ b = NaN THEN NaN ELSE RoundF64(a + b)

\* f64::partial_cmp(x, y): "None" when either side is NaN.
PartialCmp(x, y) ==
    IF x = NaN \/ y = NaN THEN "None"
    ELSE IF x < y THEN "Less"
    ELSE IF x > y THEN "Greater"
    ELSE "Equal"

\* ----------------------------------------------------------------- input
Keys == {"A", "B"}
Big == Pow2(MantBits)

\* A feature: its optional geometry, whether the conversion of the geometry
\* succeeds and the area of the converted geometry; its optional properties
\* and the value of the attribute N03_004 in them.
Accumulating ==
    {[geometry |-> "Some", conv |-> "Ok", area |-> a,
      properties |-> "Some", N03_004 |-> "String", name |-> "A"] :
        a \in {1, Big}}
    \cup
    {[geometry |-> "Some", conv |-> "Ok", area |-> a,
      properties |-> "Some", N03_004 |-> "String", name |-> "B"] :
        a \in {0, 1, NaN}}
NoGeometry ==
    {[geometry |-> "None", conv |-> "Ok", area |-> 0,
      properties |-> "Some", N03_004 |-> "String", name |-> "A"]}
Malformed ==
    {[geometry |-> "Some", conv |-> "Err", area |-> 0,
      properties |-> "Some", N03_004 |-> p, name |-> "A"] :
        p \in {"String", "Absent"}}
NoKey ==
    {[geometry |-> "Some", conv |-> "Ok", area |-> 1,
      properties |-> "None", N03_004 |-> "Absent", name |-> "A"]}
    \cup
    {[geometry |-> "Some", conv |-> "Ok", area |-> 1,
      properties |-> "Some", N03_004 |-> p, name |-> "A"] :
        p \in {"Absent", "Number"}}
FeatureKinds == Accumulating \cup NoGeometry \cup Malformed \cup NoKey

FeatureSeqs == UNION {[1..n -> FeatureKinds] : n \in 0..MaxFeatures}

\* ----------------------------------------------------------------- state
VARIABLES
    isCollection,   \* the parsed GeoJson is a FeatureCollection
    features,       \* collection.features
    mainpc,         \* position of the main thread
    pending,        \* indices of features par_iter has not handed out yet
    wpc,            \* position of each worker inside the closure
    wfeat,          \* the feature a worker is processing (0: none)
    wtmp,           \* the value a worker read from the entry
    lock,           \* holder of the Mutex (0: free)
    poisoned,       \* the Mutex is poisoned: a thread panicked holding it
    area_map,       \* the HashMap<String, f64>
    sorted_areas,   \* the Vec<(String, f64)>
    csv,            \* records written to output.csv
    stdout          \* lines printed

vars == <<isCollection, features, mainpc, pending, wpc, wfeat, wtmp, lock,
          poisoned, area_map, sorted_areas, csv, stdout>>

Workers == 1..NumWorkers
Main == NumWorkers + 1
EmptyMap == [k \in {} |-> 0]

Init ==
    /\ isCollection \in BOOLEAN
    /\ features \in (IF isCollection THEN FeatureSeqs ELSE {<<>>})
    /\ mainpc = "read"
    /\ pending = {}
    /\ wpc = [w \in Workers |-> "idle"]
    /\ wfeat = [w \in Workers |-> 0]
    /\ wtmp = [w \in Workers |-> 0]
    /\ lock = 0
    /\ poisoned = FALSE
    /\ area_map = EmptyMap
    /\ sorted_areas = <<>>
    /\ csv = <<>>
    /\ stdout = <<>>

\* ------------------------------------------------------------ main: input
\* Mutant of ReadInput: the output file is created and its header written
\* before the input is opened.
ReadInputAfterSink ==
    /\ mainpc = "read"
    /\ csv' = <<<<"City", "Area">>>>
    /\ \/ /\ mainpc' = IF isCollection THEN "par" ELSE "drain"
          /\ pending' = IF isCollection THEN 1..Len(features) ELSE {}
       \/ /\ mainpc' = "readerror"
          /\ pending' = pending
    /\ UNCHANGED poisoned
    /\ UNCHANGED <<isCollection, features, wpc, wfeat, wtmp, lock, area_map,
                   sorted_areas, stdout>>

\* Lines 22-32: open and parse the file, create the map, start par_iter.
ReadInput ==
    /\ mainpc = "read"
    /\ \/ /\ mainpc' = IF isCollection THEN "par" ELSE "drain"
          /\ pending' = IF isCollection THEN 1..Len(features) ELSE {}
       \/ /\ mainpc' = "readerror"
          /\ pending' = pending
    /\ UNCHANGED poisoned
    /\ UNCHANGED <<isCollection, features, wpc, wfeat, wtmp, lock, area_map,
                   sorted_areas, csv, stdout>>

\* ---------------------------------------------------------------- workers
\* Mutant of Branch: a non-string N03_004 is used as a key all the same.
BranchAnyValue(f) ==
    IF f.geometry = "None" THEN "skip"
    ELSE IF f.conv = "Err" THEN "err"
    ELSE IF f.properties = "None" THEN "skip"
    ELSE IF f.N03_004 = "Absent" THEN "skip"
    ELSE "lock"

\* Mutant of Branch: a failed conversion is dropped without a message.
BranchErrSilent(f) ==
    IF f.geometry = "None" THEN "skip"
    ELSE IF f.conv = "Err" THEN "skip"
    ELSE IF f.properties = "None" THEN "skip"
    ELSE IF f.N03_004 # "String" THEN "skip"
    ELSE "lock"

\* Mutant of Branch: the key is looked up before the geometry is converted,
\* so a failed conversion of a feature without a string key goes unreported.
BranchKeyFirst(f) ==
    IF f.geometry = "None" THEN "skip"
    ELSE IF f.properties = "None" THEN "skip"
    ELSE IF f.N03_004 # "String" THEN "skip"
    ELSE IF f.conv = "Err" THEN "err"
    ELSE "lock"

\* Mutant of Branch: a geometry without area is rejected before the fold.
BranchRejectsNoArea(f) ==
    IF f.geometry = "None" THEN "skip"
    ELSE IF f.conv = "Err" THEN "err"
    ELSE IF f.area = 0 THEN "skip"
    ELSE IF f.properties = "None" THEN "skip"
    ELSE IF f.N03_004 # "String" THEN "skip"
    ELSE "lock"

\* The nested if-let / match of lines 35-44 and 52.
Branch(f) ==
    IF f.geometry = "None" THEN "skip"
    ELSE IF f.conv = "Err" THEN "err"
    ELSE IF f.properties = "None" THEN "skip"
    ELSE IF f.N03_004 # "String" THEN "skip"
    ELSE "lock"

\* Mutant of Process: the guard is taken at the top of the closure, before
\* the geometry is converted and the key looked up.
ProcessUnderLock(w, i) ==
    /\ mainpc = "par"
    /\ wpc[w] = "idle"
    /\ i \in pending
    /\ lock = 0
    /\ pending' = pending \ {i}
    /\ LET b == Branch(features[i])
       IN  IF b = "skip"
           THEN UNCHANGED <<wpc, wfeat, lock>>
           ELSE /\ wpc' = [wpc EXCEPT ![w] = IF b = "lock" THEN "entry" ELSE b]
                /\ wfeat' = [wfeat EXCEPT ![w] = i]
                /\ lock' = w
    /\ UNCHANGED poisoned
    /\ UNCHANGED <<isCollection, features, mainpc, wtmp, area_map,
                   sorted_areas, csv, stdout>>

\* A worker takes a feature from par_iter and runs the closure up to its
\* first access of shared state; a skipped feature ends the closure.
Process(w, i) ==
    /\ mainpc = "par"
    /\ wpc[w] = "idle"
    /\ i \in pending
    /\ pending' = pending \ {i}
    /\ LET b == Branch(features[i])
       IN  IF b = "skip"
           THEN UNCHANGED <<wpc, wfeat>>
           ELSE /\ wpc' = [wpc EXCEPT ![w] = b]
                /\ wfeat' = [wfeat EXCEPT ![w] = i]
    /\ UNCHANGED poisoned
    /\ UNCHANGED <<isCollection, features, mainpc, wtmp, lock, area_map,
                   sorted_areas, csv, stdout>>

\* Line 52: println!("Error: {}", err).
PrintError(w) ==
    /\ wpc[w] = "err"
    /\ stdout' = Append(stdout, "Error")
    /\ wpc' = [wpc EXCEPT ![w] = "idle"]
    /\ wfeat' = [wfeat EXCEPT ![w] = 0]
    /\ UNCHANGED poisoned
    /\ UNCHANGED <<isCollection, features, mainpc, pending, wtmp, lock,
                   area_map, sorted_areas, csv>>

\* Mutant of Lock: the map is entered without waiting for the Mutex.
LockNoExclusion(w) ==
    /\ wpc[w] = "lock"
    /\ lock' = w
    /\ wpc' = [wpc EXCEPT ![w] = "entry"]
    /\ UNCHANGED poisoned
    /\ UNCHANGED <<isCollection, features, mainpc, pending, wfeat, wtmp,
                   area_map, sorted_areas, csv, stdout>>

\* Line 46: area_map.lock().unwrap().  On a poisoned Mutex lock() returns
\* Err, unwrap panics and the closure unwinds for this feature (the worker
\* thread itself goes on: rayon keeps the panic for the caller of for_each).
Lock(w) ==
    /\ wpc[w] = "lock"
    /\ lock = 0
    /\ IF poisoned
       THEN /\ wpc' = [wpc EXCEPT ![w] = "idle"]
            /\ wfeat' = [wfeat EXCEPT ![w] = 0]
            /\ lock' = lock
       ELSE /\ wpc' = [wpc EXCEPT ![w] = "entry"]
            /\ wfeat' = wfeat
            /\ lock' = w
    /\ UNCHANGED poisoned
    /\ UNCHANGED <<isCollection, features, mainpc, pending, wtmp,
                   area_map, sorted_areas, csv, stdout>>

\* A panic inside the critical section, before the entry is there (line 47:
\* to_string and or_insert allocate and can panic): the closure unwinds, the
\* guard is dropped during the panic, which poisons the Mutex.
PanicInEntry(w) ==
    /\ wpc[w] = "entry"
    /\ poisoned' = TRUE
    /\ lock' = 0
    /\ wpc' = [wpc EXCEPT ![w] = "idle"]
    /\ wfeat' = [wfeat EXCEPT ![w] = 0]
    /\ UNCHANGED <<isCollection, features, mainpc, pending, wtmp,
                   area_map, sorted_areas, csv, stdout>>

\* Mutant of OrInsert: insert(key, 0.0), which resets an existing entry.
InsertZero(m, k) == [x \in DOMAIN m \cup {k} |-> IF x = k THEN 0 ELSE m[x]]

\* HashMap::entry(key).or_insert(0.0).
OrInsert(m, k) ==
    IF k \in DOMAIN m THEN m
    ELSE [x \in DOMAIN m \cup {k} |-> IF x = k THEN 0 ELSE m[x]]

\* Mutant of Entry: or_insert(area) instead of or_insert(0.0).
EntryInsertsArea(w) ==
    /\ wpc[w] = "entry"
    /\ LET k == features[wfeat[w]].name
           m == IF k \in DOMAIN area_map THEN area_map
                ELSE [x \in DOMAIN area_map \cup {k} |->
                        IF x = k THEN features[wfeat[w]].area
                        ELSE area_map[x]]
       IN  /\ area_map' = m
           /\ wtmp' = [wtmp EXCEPT ![w] = m[k]]
    /\ wpc' = [wpc EXCEPT ![w] = "add"]
    /\ UNCHANGED poisoned
    /\ UNCHANGED <<isCollection, features, mainpc, pending, wfeat, lock,
                   sorted_areas, csv, stdout>>

\* Line 47, left side: map.entry(city).or_insert(0.0), and the read of `+=`.
Entry(w) ==
    /\ wpc[w] = "entry"
    /\ LET k == features[wfeat[w]].name
           m == OrInsert(area_map, k)
       IN  /\ area_map' = m
           /\ wtmp' = [wtmp EXCEPT ![w] = m[k]]
    /\ wpc' = [wpc EXCEPT ![w] = "add"]
    /\ UNCHANGED poisoned
    /\ UNCHANGED <<isCollection, features, mainpc, pending, wfeat, lock,
                   sorted_areas, csv, stdout>>

\* Mutant of AddAssign: `= area` instead of `+= area`.
AddAssignOverwrite(w) ==
    /\ wpc[w] = "add"
    /\ LET f == features[wfeat[w]]
       IN  area_map' = [area_map EXCEPT ![f.name] = f.area]
    /\ lock' = 0
    /\ wpc' = [wpc EXCEPT ![w] = "idle"]
    /\ wfeat' = [wfeat EXCEPT ![w] = 0]
    /\ wtmp' = [wtmp EXCEPT ![w] = 0]
    /\ UNCHANGED poisoned
    /\ UNCHANGED <<isCollection, features, mainpc, pending, sorted_areas,
                   csv, stdout>>

\* Mutant of AddAssign: the guard outlives the closure (it is leaked, as
\* with mem::forget), so the Mutex stays locked.
AddAssignKeepsLock(w) ==
    /\ wpc[w] = "add"
    /\ LET f == features[wfeat[w]]
       IN  area_map' = [area_map EXCEPT ![f.name] = AddF64(wtmp[w], f.area)]
    /\ lock' = lock
    /\ wpc' = [wpc EXCEPT ![w] = "idle"]
    /\ wfeat' = [wfeat EXCEPT ![w] = 0]
    /\ wtmp' = [wtmp EXCEPT ![w] = 0]
    /\ UNCHANGED poisoned
    /\ UNCHANGED <<isCollection, features, mainpc, pending, sorted_areas,
                   csv, stdout>>

\* Line 47, the write of `+= area`; the guard is dropped at line 48.
AddAssign(w) ==
    /\ wpc[w] = "add"
    /\ LET f == features[wfeat[w]]
       IN  area_map' = [area_map EXCEPT ![f.name] = AddF64(wtmp[w], f.area)]
    /\ lock' = 0
    /\ wpc' = [wpc EXCEPT ![w] = "idle"]
    /\ wfeat' = [wfeat EXCEPT ![w] = 0]
    /\ wtmp' = [wtmp EXCEPT ![w] = 0]
    /\ UNCHANGED poisoned
    /\ UNCHANGED <<isCollection, features, mainpc, pending, sorted_areas,
                   csv, stdout>>

\* Mutant of Join: a panic of a closure is swallowed (catch_unwind).
JoinSwallowsPanic ==
    /\ mainpc = "par"
    /\ pending = {}
    /\ \A w \in Workers : wpc[w] = "idle"
    /\ mainpc' = "drain"
    /\ UNCHANGED poisoned
    /\ UNCHANGED <<isCollection, features, pending, wpc, wfeat, wtmp, lock,
                   area_map, sorted_areas, csv, stdout>>

\* Mutant of Join: main goes on once every feature is handed out, without
\* waiting for the workers to return.
JoinEarly ==
    /\ mainpc = "par"
    /\ pending = {}
    /\ mainpc' = "drain"
    /\ UNCHANGED poisoned
    /\ UNCHANGED <<isCollection, features, pending, wpc, wfeat, wtmp, lock,
                   area_map, sorted_areas, csv, stdout>>

\* Line 55: for_each returns when every feature has been processed; if a
\* closure panicked (in this program: only with the Mutex poisoned) for_each
\* resumes the panic in main.
Join ==
    /\ mainpc = "par"
    /\ pending = {}
    /\ \A w \in Workers : wpc[w] = "idle"
    /\ mainpc' = IF poisoned THEN "panicked" ELSE "drain"
    /\ UNCHANGED poisoned
    /\ UNCHANGED <<isCollection, features, pending, wpc, wfeat, wtmp, lock,
                   area_map, sorted_areas, csv, stdout>>

\* ------------------------------------------------------ main: drain, sort
\* Line 62: area_map.lock().unwrap(), which panics on a poisoned Mutex.
DrainLock ==
    /\ mainpc = "drain"
    /\ lock = 0
    /\ lock' = IF poisoned THEN lock ELSE Main
    /\ mainpc' = IF poisoned THEN "panicked" ELSE "collect"
    /\ UNCHANGED poisoned
    /\ UNCHANGED <<isCollection, features, pending, wpc, wfeat, wtmp,
                   area_map, sorted_areas, csv, stdout>>

\* The orders in which HashMap::iter can visit the entries of m.
IterOrders(m) ==
    {s \in [1..Cardinality(DOMAIN m) -> DOMAIN m] :
        \A i, j \in DOMAIN s : i # j => s[i] # s[j]}

\* Mutant of CollectRows: the values are collected, the last entry is not.
CollectRowsShort(m, order) ==
    [i \in 1..(Len(order) - 1) |-> <<order[i], m[order[i]]>>]

\* Line 63: map.iter().map(|(k, &v)| (k.clone(), v)).collect().
CollectRows(m, order) == [i \in DOMAIN order |-> <<order[i], m[order[i]]>>]

\* Lines 63-64: collect the entries, drop the guard.
Collect ==
    /\ mainpc = "collect"
    /\ \E order \in IterOrders(area_map) :
          sorted_areas' = CollectRows(area_map, order)
    /\ lock' = 0
    /\ mainpc' = "sort"
    /\ UNCHANGED poisoned
    /\ UNCHANGED <<isCollection, features, pending, wpc, wfeat, wtmp,
                   area_map, csv, stdout>>

\* Mutant of Compare: ascending, a.1.partial_cmp(&b.1).
CompareAscending(a, b) == PartialCmp(a[2], b[2])

\* The closure of line 67, |a, b| b.1.partial_cmp(&a.1): "None" is where
\* unwrap panics.
Compare(a, b) == PartialCmp(b[2], a[2])

\* slice::sort_by on a short slice is a stable insertion sort: the new
\* element x moves left while it compares Less than its left neighbour.
RECURSIVE InsertTail(_, _)
InsertTail(s, x) ==
    IF s = <<>> THEN [panic |-> FALSE, v |-> <<x>>]
    ELSE LET c == Compare(x, s[Len(s)])
         IN  IF c = "None" THEN [panic |-> TRUE, v |-> Append(s, x)]
             ELSE IF c = "Less"
             THEN LET r == InsertTail(SubSeq(s, 1, Len(s) - 1), x)
                  IN  [panic |-> r.panic, v |-> Append(r.v, s[Len(s)])]
             ELSE [panic |-> FALSE, v |-> Append(s, x)]

RECURSIVE SortBy(_)
SortBy(s) ==
    IF s = <<>> THEN [panic |-> FALSE, v |-> <<>>]
    ELSE LET p == SortBy(SubSeq(s, 1, Len(s) - 1))
         IN  IF p.panic THEN [panic |-> TRUE, v |-> Append(p.v, s[Len(s)])]
             ELSE InsertTail(p.v, s[Len(s)])

\* Mutant of Sort: the first row is read before sorting (sorted_areas[0]),
\* which panics on an empty vector.
SortReadsFirst ==
    /\ mainpc = "sort"
    /\ LET r == SortBy(sorted_areas)
       IN  /\ sorted_areas' = r.v
           /\ mainpc' = IF r.panic \/ sorted_areas = <<>>
                         THEN "panicked" ELSE "open"
    /\ UNCHANGED poisoned
    /\ UNCHANGED <<isCollection, features, pending, wpc, wfeat, wtmp, lock,
                   area_map, csv, stdout>>

\* Line 67: sorted_areas.sort_by(..); a panic in the comparison unwinds main.
Sort ==
    /\ mainpc = "sort"
    /\ LET r == SortBy(sorted_areas)
       IN  /\ sorted_areas' = r.v
           /\ mainpc' = IF r.panic THEN "panicked" ELSE "open"
    /\ UNCHANGED poisoned
    /\ UNCHANGED <<isCollection, features, pending, wpc, wfeat, wtmp, lock,
                   area_map, csv, stdout>>

\* ----------------------------------------------------------- main: output
\* f64::to_string.
F64ToString(a) == IF a = NaN THEN "NaN" ELSE ToString(a)

Header == <<"City", "Area">>

\* Line 70: Writer::from_path("output.csv")?.
OpenWriter ==
    /\ mainpc = "open"
    /\ mainpc' \in {"header", "writeerror"}
    /\ UNCHANGED poisoned
    /\ UNCHANGED <<isCollection, features, pending, wpc, wfeat, wtmp, lock,
                   area_map, sorted_areas, csv, stdout>>

\* Line 71: wtr.write_record(&["City", "Area"])?.
WriteHeader ==
    /\ mainpc = "header"
    /\ \/ /\ csv' = Append(csv, Header)
          /\ mainpc' = "rows"
       \/ /\ csv' = csv
          /\ mainpc' = "writeerror"
    /\ UNCHANGED poisoned
    /\ UNCHANGED <<isCollection, features, pending, wpc, wfeat, wtmp, lock,
                   area_map, sorted_areas, stdout>>

\* Lines 73-76: one iteration of the loop; the header is csv[1], so the next
\* row to write is sorted_areas[Len(csv)].
WriteRow ==
    /\ mainpc = "rows"
    /\ Len(csv) <= Len(sorted_areas)
    /\ LET row == sorted_areas[Len(csv)]
       IN  \/ /\ csv' = Append(csv, <<row[1], F64ToString(row[2])>>)
              /\ mainpc' = mainpc
           \/ /\ csv' = csv
              /\ mainpc' = "writeerror"
    /\ UNCHANGED poisoned
    /\ UNCHANGED <<isCollection, features, pending, wpc, wfeat, wtmp, lock,
                   area_map, sorted_areas, stdout>>

\* Line 78: wtr.flush()?, after the last row.
Flush ==
    /\ mainpc = "rows"
    /\ Len(csv) > Len(sorted_areas)
    /\ mainpc' \in {"report", "writeerror"}
    /\ UNCHANGED poisoned
    /\ UNCHANGED <<isCollection, features, pending, wpc, wfeat, wtmp, lock,
                   area_map, sorted_areas, csv, stdout>>

\* Lines 79-87: the two closing println! and Ok(()).
Report ==
    /\ mainpc = "report"
    /\ stdout' = stdout \o <<"Written", "Elapsed">>
    /\ mainpc' = "done"
    /\ UNCHANGED poisoned
    /\ UNCHANGED <<isCollection, features, pending, wpc, wfeat, wtmp, lock,
                   area_map, sorted_areas, csv>>

\* ---------------------------------------------------------- specification
Next ==
    \/ ReadInput
    \/ \E w \in Workers : \E i \in 1..MaxFeatures : Process(w, i)
    \/ \E w \in Workers : PrintError(w)
    \/ \E w \in Workers : Lock(w)
    \/ \E w \in Workers : Entry(w)
    \/ \E w \in Workers : AddAssign(w)
    \/ Join
    \/ DrainLock
    \/ Collect
    \/ Sort
    \/ OpenWriter
    \/ WriteHeader
    \/ WriteRow
    \/ Flush
    \/ Report

Spec == Init /\ [][Next]_vars

\* --------------------------------------------------------------- fairness
\* The steps of one rayon worker thread and of the main thread.
WorkerStep(w) ==
    \/ \E i \in 1..MaxFeatures : Process(w, i)
    \/ PrintError(w)
    \/ Lock(w)
    \/ Entry(w)
    \/ AddAssign(w)

MainStep ==
    \/ ReadInput
    \/ Join
    \/ DrainLock
    \/ Collect
    \/ Sort
    \/ OpenWriter
    \/ WriteHeader
    \/ WriteRow
    \/ Flush
    \/ Report

\* Inputs of the fair runs: progress depends on a feature only through the
\* branch it takes and through a NaN area (on which the sort panics), so
\* one feature per branch is taken, with two keys.
FairKinds ==
    {f \in Accumulating : f.area \in {1, NaN}}
    \cup NoGeometry
    \cup {f \in Malformed : f.N03_004 = "String"}

InitFair ==
    /\ Init
    /\ \A i \in DOMAIN features : features[i] \in FairKinds

\* Every thread that can take a step eventually takes one (the threads are
\* operating-system threads; none is suspended forever).
SpecFair ==
    /\ InitFair
    /\ [][Next]_vars
    /\ WF_vars(MainStep)
    /\ \A w \in Workers : WF_vars(WorkerStep(w))

\* ------------------------------------------- runs with a panic in line 47
\* Inputs of the runs in which the critical section can panic.
FaultKinds ==
    Accumulating \cup {f \in Malformed : f.N03_004 = "String"}

InitFault ==
    /\ Init
    /\ isCollection
    /\ \A i \in DOMAIN features : features[i] \in FaultKinds

NextFault ==
    \/ Next
    \/ \E w \in Workers : PanicInEntry(w)

SpecFault == InitFault /\ [][NextFault]_vars

\* ============================================================ properties
\* The features the closure folds into the map: geometry present and
\* converted, N03_004 a string.
Contributes(f) ==
    /\ f.geometry = "Some"
    /\ f.conv = "Ok"
    /\ f.properties = "Some"
    /\ f.N03_004 = "String"

ContributorsOf(fs, k) ==
    {i \in DOMAIN fs : Contributes(fs[i]) /\ fs[i].name = k}

\* The f64 sums of the areas of the features S of fs, added to acc one by
\* one in every possible order.
RECURSIVE FoldSums(_, _, _)
FoldSums(fs, S, acc) ==
    IF S = {} THEN {acc}
    ELSE UNION {FoldSums(fs, S \ {i}, AddF64(acc, fs[i].area)) : i \in S}

\* m holds exactly the keys of the contributing features of fs, each with
\* the sum of the areas of its features, every feature added once.
IsTotalsOf(m, fs) ==
    /\ DOMAIN m = {k \in Keys : ContributorsOf(fs, k) # {}}
    /\ \A k \in DOMAIN m : m[k] \in FoldSums(fs, ContributorsOf(fs, k), 0)

\* for_each has returned.
Joined == mainpc \notin {"read", "readerror", "par"}

\* C1: once the parallel for_each has completed, the map holds for each key
\* K the sum of the areas of exactly the features with geometry present and
\* converted and N03_004 a string equal to K, each counted once (the sum
\* being the f64 sum in the order the workers added).
C1_SumInvariant == Joined => IsTotalsOf(area_map, features)

\* Two features of the same key were folded by different workers.
C1_Witness ==
    /\ mainpc = "drain"
    /\ \E k \in DOMAIN area_map :
          /\ Cardinality(ContributorsOf(features, k)) >= 2
          /\ area_map[k] >= 2

\* The key and the area a worker in the critical section is adding.
KeyOf(w) == features[wfeat[w]].name
AreaOf(w) == features[wfeat[w]].area

\* C2: accumulate is an atomic read-modify-write: from a worker's read of
\* the entry to its write nobody else changes the map, and its write
\* applies its area to the value the map holds then, so no update is lost.
C2_AtomicAccumulate ==
    [][\A w \in Workers :
          wpc[w] = "add" =>
            IF wpc'[w] = "add"
            THEN area_map' = area_map
            ELSE /\ KeyOf(w) \in DOMAIN area_map
                 /\ area_map' = [area_map EXCEPT
                       ![KeyOf(w)] = AddF64(area_map[KeyOf(w)], AreaOf(w))]]_vars

\* A worker is between its read and its write while another worker waits
\* to add to the same key.
C2_Witness ==
    \E v, w \in Workers :
        /\ wpc[v] = "add"
        /\ wpc[w] = "lock"
        /\ KeyOf(v) = KeyOf(w)
        /\ AreaOf(w) = 1

\* The main thread has started the drain (line 62 onwards).
DrainStarted == mainpc \in {"collect", "sort", "open", "header", "rows",
                            "report", "done", "writeerror", "panicked"}

AllReturned == pending = {} /\ \A w \in Workers : wpc[w] = "idle"

\* C3: the drain never starts while a feature is undispatched or a worker
\* is still processing one, and nothing is accumulated once it has started.
C3_JoinBeforeDrain ==
    /\ [](DrainStarted \/ mainpc = "drain" => AllReturned)
    /\ [][DrainStarted \/ mainpc = "drain" => area_map' = area_map]_vars

\* The drain reads a map into which workers folded features.
C3_Witness ==
    /\ mainpc = "sort"
    /\ Len(sorted_areas) = 2
    /\ Len(features) = MaxFeatures

\* The totals of a run with one worker: the features in input order.
RECURSIVE SeqTotals(_)
SeqTotals(fs) ==
    IF fs = <<>> THEN EmptyMap
    ELSE LET m == SeqTotals(SubSeq(fs, 1, Len(fs) - 1))
             f == fs[Len(fs)]
         IN  IF Contributes(f)
             THEN [OrInsert(m, f.name) EXCEPT
                      ![f.name] = AddF64(OrInsert(m, f.name)[f.name], f.area)]
             ELSE m

\* C4: with any number of workers and any interleaving the totals are those
\* of the run with one worker over the same input.
C4_SameTotalsAsSequential == Joined => area_map = SeqTotals(features)

\* The features C5 lists: no geometry, no properties, N03_004 absent or
\* not a string.
Skipped(f) ==
    \/ f.geometry = "None"
    \/ f.properties = "None"
    \/ f.N03_004 # "String"

WithoutSkipped(fs) == SelectSeq(fs, LAMBDA f : ~Skipped(f))

\* C5: a feature without geometry, without properties or without a string
\* N03_004 never takes a worker to the lock, its processing leaves the map
\* and the lock as they are, and the totals are those of the input without
\* such features.
C5_SkipSemantics ==
    /\ [](\A w \in Workers :
             wfeat[w] # 0 /\ Skipped(features[wfeat[w]]) =>
               wpc[w] \notin {"lock", "entry", "add"} /\ lock # w)
    /\ [][\A i \in pending \ pending' :
             Skipped(features[i]) => area_map' = area_map /\ lock' = lock]_vars
    /\ [](Joined => IsTotalsOf(area_map, WithoutSkipped(features)))

\* A run over skipped and folded features has been joined.
C5_Witness ==
    /\ mainpc = "drain"
    /\ \E i, j, k \in DOMAIN features :
          /\ features[i].geometry = "None"
          /\ features[j].N03_004 = "Number"
          /\ Contributes(features[k])

\* The geometry is present and its conversion fails.
IsMalformed(f) == f.geometry = "Some" /\ f.conv = "Err"

WithoutMalformed(fs) == SelectSeq(fs, LAMBDA f : ~IsMalformed(f))

ErrorCount == Cardinality({n \in DOMAIN stdout : stdout[n] = "Error"})

\* C6: a feature whose conversion fails does not abort the run: reporting
\* it changes no key, the join is reached with the totals of the input
\* without it, and one error is recorded for each such feature.
C6_PartialFailure ==
    /\ [][\A w \in Workers :
             wpc[w] = "err" /\ wpc'[w] # "err" =>
               /\ area_map' = area_map
               /\ mainpc' = mainpc
               /\ pending' = pending
               /\ Len(stdout') = Len(stdout) + 1]_vars
    /\ [](mainpc \in {"par", "drain"} =>
             ErrorCount <=
               Cardinality({i \in DOMAIN features : IsMalformed(features[i])}))
    /\ [](Joined =>
             /\ IsTotalsOf(area_map, WithoutMalformed(features))
             /\ mainpc = "drain" =>
                  ErrorCount =
                    Cardinality({i \in DOMAIN features :
                                    IsMalformed(features[i])}))

\* One malformed feature among folded ones, and the run has ended.
C6_Witness ==
    /\ mainpc = "done"
    /\ Cardinality({i \in DOMAIN features : IsMalformed(features[i])}) = 1
    /\ Cardinality({i \in DOMAIN features : Contributes(features[i])}) = 2
    /\ ErrorCount = 1

RowOf(r) == <<r[1], F64ToString(r[2])>>

\* The sort has returned.
Sorted == mainpc \in {"open", "header", "rows", "report", "done", "writeerror"}

\* C7: the rows are in non-increasing order of area once the sort has
\* returned, the sink receives the header first and then the rows in that
\* order, and nothing is written before the sort has returned.
C7_SortedHandoff ==
    /\ Sorted =>
         \A i, j \in DOMAIN sorted_areas :
            i < j => PartialCmp(sorted_areas[i][2], sorted_areas[j][2])
                        \in {"Greater", "Equal"}
    /\ csv # <<>> =>
         /\ Sorted
         /\ csv[1] = Header
         /\ Len(csv) <= Len(sorted_areas) + 1
         /\ \A n \in 2..Len(csv) : csv[n] = RowOf(sorted_areas[n - 1])

\* Two rows of different areas were written, and the map was iterated in
\* the other order.
C7_Witness ==
    /\ mainpc = "done"
    /\ Len(csv) = 3
    /\ sorted_areas[1][1] = "B"
    /\ sorted_areas[1][2] > sorted_areas[2][2]

\* C8: the drained and the sorted sequence hold one row per key of the map,
\* with the key's value, and the keys are those that were accumulated to.
C8_DrainPreservesMap ==
    mainpc = "sort" \/ Sorted =>
        /\ Len(sorted_areas) = Cardinality(DOMAIN area_map)
        /\ {sorted_areas[n] : n \in DOMAIN sorted_areas}
              = {<<k, area_map[k]>> : k \in DOMAIN area_map}
        /\ DOMAIN area_map =
              {features[i].name : i \in {n \in DOMAIN features :
                                           Contributes(features[n])}}

\* Two keys of equal value were drained and sorted.
C8_Witness ==
    /\ mainpc = "open"
    /\ Len(sorted_areas) = 2
    /\ sorted_areas[1][2] = sorted_areas[2][2]

\* C9: a FeatureCollection without features gives no worker step, an empty
\* map, no error and no data row; the run does not panic and ends with the
\* header as its only record.
C9_EmptyInput ==
    isCollection /\ features = <<>> =>
        /\ \A w \in Workers : wpc[w] = "idle" /\ wfeat[w] = 0
        /\ lock \in {0, Main}
        /\ area_map = EmptyMap
        /\ ErrorCount = 0
        /\ sorted_areas = <<>>
        /\ mainpc # "panicked"
        /\ csv \in {<<>>, <<Header>>}
        /\ mainpc \in {"report", "done"} => csv = <<Header>>
        /\ mainpc = "done" => stdout = <<"Written", "Elapsed">>

C9_Witness == isCollection /\ features = <<>> /\ mainpc = "done"

HasNaN(rows) == \E n \in DOMAIN rows : rows[n][2] = NaN

\* C10: the sort does not panic when a value is NaN: it returns with the
\* NaN rows after all the others and the output is written.
C10_SortToleratesNaN ==
    /\ mainpc # "panicked"
    /\ Sorted /\ HasNaN(sorted_areas) =>
         \A i, j \in DOMAIN sorted_areas :
            sorted_areas[i][2] = NaN /\ sorted_areas[j][2] # NaN => j < i

\* C11: once a worker has panicked holding the lock (the Mutex is
\* poisoned), main never gets past for_each except by panicking, nothing is
\* drained and no record is written, and the run is not stuck before main
\* has panicked.
C11_PoisonIsFatal ==
    poisoned =>
        /\ mainpc \in {"par", "panicked"}
        /\ sorted_areas = <<>>
        /\ csv = <<>>
        /\ mainpc = "par" => ENABLED NextFault

\* The run has failed, and a feature whose closure found the Mutex poisoned
\* is missing from the map.
C11_Witness ==
    /\ poisoned
    /\ mainpc = "panicked"
    /\ Len(features) = MaxFeatures
    /\ \A i \in DOMAIN features : Contributes(features[i])
    /\ \E k \in DOMAIN area_map : area_map[k] = 1

\* C12: between the fan-out and the join no step performs I/O: nothing is
\* printed and nothing is written to the output while for_each runs, not
\* even on the branch where the conversion of the geometry fails.
C12_NoIOInParallelRegion ==
    [][mainpc = "par" => stdout' = stdout /\ csv' = csv]_vars

\* The run has ended: Ok(()), an error returned by `?`, or a panic of main.
Terminated == mainpc \in {"done", "readerror", "writeerror", "panicked"}

\* C13: under fair scheduling the join is reached, the lock of the drain is
\* acquired and the run ends; when it has ended every feature has been
\* processed and no thread is left waiting, and a thread that waited for
\* the lock has left the wait by acquiring it: nobody waits forever.
C13_Termination ==
    /\ <>Terminated
    /\ (mainpc = "par") ~> (mainpc = "drain")
    /\ (mainpc = "drain") ~> (mainpc = "collect")
    /\ [](Terminated => AllReturned /\ lock = 0)
    /\ [][\A w \in Workers :
             wpc[w] = "lock" /\ wpc'[w] # "lock" =>
               wpc'[w] = "entry" /\ lock' = w]_vars
    /\ [][mainpc = "drain" /\ mainpc' # "drain" =>
             mainpc' = "collect" /\ lock' = Main]_vars

\* A worker waits for the lock while another one holds it, with a feature
\* still to be handed out.
C13_Witness ==
    \E v, w \in Workers :
        /\ wpc[v] = "lock"
        /\ lock = w
        /\ pending # {}

\* The closure has returned for feature i.
Returned(i) ==
    /\ mainpc \notin {"read", "readerror"}
    /\ i \notin pending
    /\ \A w \in Workers : wfeat[w] # i

\* The features of key k folded into the map so far.
FoldedOf(k) == {i \in ContributorsOf(features, k) : Returned(i)}

\* The map exists and has not been drained yet.
MapLive == mainpc \in {"par", "drain", "collect"}

\* C14 as stated: at every point from the creation of the map to its drain
\* the value of a key is the sum over all input features of that key.
C14_TotalAtEveryPoint == MapLive => IsTotalsOf(area_map, features)

\* C14, amended: at every point the value of a key is the sum of the areas
\* of the features of that key folded so far, which from the join on are
\* all the features of that key.
C14_SumOfFoldedSoFar ==
    /\ \A k \in DOMAIN area_map :
          area_map[k] \in FoldSums(features, FoldedOf(k), 0)
    /\ Joined =>
          \A k \in Keys : FoldedOf(k) = ContributorsOf(features, k)

\* In the middle of the parallel phase one feature of a key is folded and
\* another one of the same key is not.
C14_Witness ==
    /\ mainpc = "par"
    /\ \E k \in DOMAIN area_map :
          /\ FoldedOf(k) # {}
          /\ FoldedOf(k) # ContributorsOf(features, k)
          /\ area_map[k] >= 1

\* The features whose geometry is present and whose conversion failed.
MalformedSet == {i \in DOMAIN features : IsMalformed(features[i])}

\* C15: the errors recorded so far are one for each returned feature whose
\* geometry is present and whose conversion failed, with or without a
\* grouping key, so over the whole run they number those features; the
\* step that disposes of any other skipped feature records nothing.
C15_ErrorAccounting ==
    /\ [](mainpc \notin {"read", "readerror"} =>
             ErrorCount = Cardinality({i \in MalformedSet : Returned(i)}))
    /\ [](Joined => ErrorCount = Cardinality(MalformedSet))
    /\ [][\A i \in pending \ pending' :
             Skipped(features[i]) /\ ~IsMalformed(features[i]) =>
                /\ stdout' = stdout
                /\ \A w \in Workers : wpc'[w] # "err" \/ wpc[w] = "err"]_vars

\* A whole run over a failed conversion with a key, one without a key and
\* a feature without geometry recorded two errors.
C15_Witness ==
    /\ mainpc = "done"
    /\ ErrorCount = 2
    /\ \E i, j, k \in DOMAIN features :
          /\ IsMalformed(features[i]) /\ features[i].N03_004 = "String"
          /\ IsMalformed(features[j]) /\ features[j].N03_004 = "Absent"
          /\ features[k].geometry = "None"

\* C16: a failure to open or parse the input ends the run at once: nothing
\* was dispatched, the map is untouched, the sink was never opened and
\* nothing was printed; a failure of the sink arises only from a sink
\* operation, which writes nothing; and no step follows either failure.
C16_CollaboratorFailure ==
    /\ [](mainpc = "readerror" =>
             /\ pending = {}
             /\ \A w \in Workers : wpc[w] = "idle" /\ wfeat[w] = 0
             /\ lock = 0
             /\ area_map = EmptyMap
             /\ sorted_areas = <<>>
             /\ csv = <<>>
             /\ stdout = <<>>)
    /\ [][mainpc' = "readerror" => mainpc = "read"]_vars
    /\ [][mainpc' = "writeerror" =>
             /\ mainpc \in {"open", "header", "rows"}
             /\ csv' = csv
             /\ stdout' = stdout]_vars
    /\ [][mainpc \notin {"readerror", "writeerror"}]_vars

\* The input could not be read although it held features to fold.
C16_Witness ==
    /\ mainpc = "readerror"
    /\ isCollection
    /\ \E i \in DOMAIN features : Contributes(features[i])

\* C17: a worker holds the lock exactly from the entry lookup to the write
\* of line 47, for one feature that has a string key: not while a feature
\* is converted, measured or looked up, nor while an error is printed.
\* While it holds the lock its feature does not change and only the value
\* of that feature's key does, and its write releases the lock.
C17_MinimalCriticalSection ==
    /\ [](\A w \in Workers :
             /\ lock = w <=> wpc[w] \in {"entry", "add"}
             /\ lock = w =>
                  wfeat[w] # 0 /\ Contributes(features[wfeat[w]]))
    /\ [][\A w \in Workers :
             lock = w =>
                /\ \A k \in DOMAIN area_map \ {KeyOf(w)} :
                      k \in DOMAIN area_map' /\ area_map'[k] = area_map[k]
                /\ DOMAIN area_map' \subseteq DOMAIN area_map \cup {KeyOf(w)}
                /\ IF wpc'[w] = wpc[w]
                   THEN /\ lock' = w
                        /\ wfeat'[w] = wfeat[w]
                        /\ area_map' = area_map
                   ELSE IF wpc[w] = "entry"
                   THEN /\ wpc'[w] = "add"
                        /\ lock' = w
                        /\ wfeat'[w] = wfeat[w]
                   ELSE /\ wpc'[w] = "idle"
                        /\ lock' = 0
                        /\ wfeat'[w] = 0]_vars

\* One worker is inside the critical section while another one prints an
\* error and features are still to be handed out.
C17_Witness ==
    \E v, w \in Workers :
        /\ lock = v
        /\ wpc[v] = "add"
        /\ wpc[w] = "err"
        /\ pending # {}

\* A converted geometry without area (a point, a line) with a string key.
ZeroArea(f) == Contributes(f) /\ f.area = 0

\* C18: a feature whose converted geometry has area 0 and which has a
\* string key is folded like any other: it takes the accumulate branch and
\* never the error branch, after the join its key is in the map, and in the
\* finished output its key has a row, with area 0 when every feature of the
\* key has area 0.
C18_ZeroAreaAccumulates ==
    \A i \in DOMAIN features :
        ZeroArea(features[i]) =>
            /\ Branch(features[i]) = "lock"
            /\ \A w \in Workers : wfeat[w] = i => wpc[w] # "err"
            /\ Joined => features[i].name \in DOMAIN area_map
            /\ Joined =>
                  ErrorCount = Cardinality(MalformedSet \ {i})
            /\ mainpc = "done" =>
                  \E n \in 2..Len(csv) :
                     /\ csv[n][1] = features[i].name
                     /\ (\A j \in ContributorsOf(features, features[i].name) :
                            features[j].area = 0) => csv[n][2] = "0"

\* A finished run whose last row is the key of a single feature of area 0,
\* below the row of a key with a positive area.
C18_Witness ==
    /\ mainpc = "done"
    /\ Len(csv) = 3
    /\ csv[3][2] = "0"
    /\ csv[2][2] # "0"
    /\ \E i \in DOMAIN features :
          /\ ZeroArea(features[i])
          /\ ContributorsOf(features, features[i].name) = {i}
          /\ csv[3][1] = features[i].name

\* The threads inside a section guarded by the Mutex.
Holders ==
    {w \in Workers : wpc[w] \in {"entry", "add"}}
        \cup (IF mainpc = "collect" THEN {Main} ELSE {})

\* At most one thread is inside a guarded section, it is the one that holds
\* the lock, and the map is written by a worker and read by the drain only
\* from inside such a section.
MapAccessByHolder ==
    /\ [](Cardinality(Holders) <= 1 /\ Holders = {lock} \ {0})
    /\ [][area_map' # area_map =>
             lock \in Workers /\ wpc'[lock] # wpc[lock]]_vars
    /\ [][mainpc = "collect" /\ mainpc' # "collect" => lock = Main]_vars
    /\ [][\A w \in Workers :
             wpc[w] = "entry" /\ wpc'[w] # "entry" => lock = w]_vars

\* C19 as stated: at most one thread holds the lock, every access to the
\* map is made by its holder, and a step of a worker touches no state that
\* another thread can see besides the map and its lock.
C19_OnlyMapShared ==
    /\ MapAccessByHolder
    /\ [][\A w \in Workers :
             wpc'[w] # wpc[w] =>
                UNCHANGED <<stdout, csv, sorted_areas, mainpc>>]_vars

\* The keys of the features folded so far.
FoldedKeys == {k \in Keys : FoldedOf(k) # {}}

\* The map holds exactly the keys folded so far, each with the sum of the
\* areas folded into it.
RunningSum ==
    /\ DOMAIN area_map = FoldedKeys
    /\ \A k \in DOMAIN area_map :
          area_map[k] \in FoldSums(features, FoldedOf(k), 0)

\* No step removes a key or makes the value of a key smaller.
NeverShrinks ==
    [][\A k \in DOMAIN area_map :
          /\ k \in DOMAIN area_map'
          /\ PartialCmp(area_map'[k], area_map[k]) # "Less"]_vars

\* C20 as stated: the running sum holds in every reachable state, no key is
\* ever removed and no value ever decreases.
C20_RunningSumEveryState == []RunningSum /\ NeverShrinks

\* C20, amended: the running sum holds in every state in which no worker is
\* inside its accumulate; while one is, the map may already hold the key of
\* the feature being folded, with the sum folded into it so far (0 for a
\* new key).  No key is ever removed and no value ever decreases.
C20_RunningSumBetweenAccumulates ==
    /\ [](lock \notin Workers => RunningSum)
    /\ [](lock \in Workers =>
             /\ FoldedKeys \subseteq DOMAIN area_map
             /\ DOMAIN area_map \subseteq FoldedKeys \cup {KeyOf(lock)}
             /\ \A k \in DOMAIN area_map :
                   area_map[k] \in FoldSums(features, FoldedOf(k), 0))
    /\ NeverShrinks

\* A worker has inserted a new key and not yet added to it, after a feature
\* of another key was folded.
C20_Witness ==
    /\ lock \in Workers
    /\ wpc[lock] = "add"
    /\ KeyOf(lock) \in DOMAIN area_map
    /\ KeyOf(lock) \notin FoldedKeys
    /\ \E k \in FoldedKeys : area_map[k] >= 1
====
